---- MODULE Spec2Model ----
(***************************************************************************)
(* GeometryDatabase (src/unnamed/part_001): the store that maps top-level  *)
(* identities to {view, model}, sub-entity names to topology data, the     *)
(* hidden set, the temporary objects, and its mementos.                    *)
(*                                                                         *)
(* JavaScript objects that are shared by reference are modelled by heaps:  *)
(* `cols` holds the (geometryModel, topologyModel, hidden) collection      *)
(* objects, `this` names the ones the database currently points to, and    *)
(* `recs` holds the TopologyData objects the topology maps point to.       *)
(* An async function is split at its awaits: one action per synchronous    *)
(* stretch of code.                                                        *)
(***************************************************************************)
EXTENDS Integers, Sequences, FiniteSets, TLC

\* ---------------------------------------------------------------- bounds
MaxItems == 2       \* addItem calls (values the counter may issue)
MaxTemps == 1       \* addTemporaryItem calls
MaxMementos == 1    \* saveToMemento calls
MaxInFlight == 1    \* suspended addItem calls at a time, where mementos are taken
MaxFaultyWalks == 1 \* topology walks with a failing kernel lookup, where mementos are taken

\* ------------------------------------------------------- kernel boundary
\* The kernel items offered to the store: "solid" is a closed solid, "shell"
\* an open one; "point" is a kind the store does not support.
KernelItems == {"curve", "region", "solid", "shell", "point"}

IsA(obj) ==
    CASE obj = "curve" -> "SpaceInstance"
      [] obj = "region" -> "PlaneInstance"
      [] obj \in {"solid", "shell"} -> "Solid"
      [] OTHER -> "Point3D"

\* mesh.IsClosed() of the mesh the kernel makes of a solid.
IsClosed(obj) == obj = "solid"

\* mesh.GetEdges(true) and mesh.GetBuffers() of a solid: the local indices.
\* The solid offered has one edge and one face.
MeshEdges(obj) == IF IsA(obj) = "Solid" THEN {0} ELSE {}
MeshFaces(obj) == IF IsA(obj) = "Solid" THEN {0} ELSE {}

\* What one kernel topology lookup (GetFace, FindEdgeByName) can do.
LookupOutcomes == {"ok", "null", "throw"}

\* ------------------------------------------------------------- schedules
\* [sag, distance] pairs; sag in 1/10000, distance in 1/10 units.
precision_distance ==
    << [sag |-> 1000, distance |-> 500],
       [sag |-> 10, distance |-> 50],
       [sag |-> 1, distance |-> 5] >>

temporary_precision_distance == << [sag |-> 50, distance |-> 10] >>

\* ----------------------------------------------------------------- state
VARIABLES
    counter,            \* GeometryDatabase.counter
    cols,               \* heap of collection objects: seq of [geometryModel, topologyModel, hidden]
    this,               \* index in cols of the collections the database holds
    recs,               \* heap of TopologyData objects: seq of [model, view]
    temporaryObjects,   \* children of the temporaryObjects scene
    disposed,           \* views on which dispose() ran
    pending,            \* async calls suspended at an await
    handles,            \* TemporaryObject handles returned to callers
    tempCalls,          \* addTemporaryItem calls made (names their meshes)
    returned,           \* views returned by addItem
    faulty,             \* topology walks in which a kernel lookup failed
    mementos,           \* GeometryMementos taken, with what they held then
    issued,             \* identities handed out by counter++, in order
    signals,            \* notifications dispatched by the last step, in order
    materials,          \* MaterialDatabase.materials: the shared THREE.Material objects
    picker,             \* the last GPUPicker.compactTopologyId call and its outcome
    outliner,           \* the plasticity-outliner element and its listeners
    prompt,             \* the plasticity-viewport-prompt element and its listeners
    last                \* the last operation step and its outcome

vars == << counter, cols, this, recs, temporaryObjects, disposed, pending,
           handles, tempCalls, returned, faulty, mementos, issued, signals,
           materials, picker, outliner, prompt, last >>

\* ----------------------------------------------------------------- views
NoRef == << "none", 0 >>

\* Mutant: the default branch of the switch builds a curve.
BuilderKind_DefaultCurve(obj) ==
    CASE IsA(obj) = "PlaneInstance" -> "PlaneInstance"
      [] IsA(obj) = "Solid" -> "Solid"
      [] OTHER -> "SpaceInstance"

BuilderKind(obj) ==
    CASE IsA(obj) = "SpaceInstance" -> "SpaceInstance"
      [] IsA(obj) = "PlaneInstance" -> "PlaneInstance"
      [] IsA(obj) = "Solid" -> "Solid"
      [] OTHER -> "unsupported"

\* builder.build() with userData.simpleName = id: a visual.Item with one
\* LOD level per schedule entry.
BuildView(ref, obj, id, levels) ==
    [ref |-> ref, simpleName |-> id, kind |-> BuilderKind(obj),
     model |-> obj, levels |-> levels]

NoView == [ref |-> NoRef, simpleName |-> -1, kind |-> "none",
           model |-> "none", levels |-> 0]

\* visual.Face.simpleName / visual.CurveEdge.simpleName: the name of a
\* sub-entity, built from the parent's identity, the kind and the index.
TopologySimpleName(parentId, kind, index) == << parentId, kind, index >>

\* A Face or CurveEdge of one LOD level of a view.
SubView(view, level, kind, index) ==
    [parent |-> view.ref, level |-> level, kind |-> kind, index |-> index,
     simpleName |-> TopologySimpleName(view.simpleName, kind, index)]

\* A set of naturals as an ascending sequence.
RECURSIVE Ascending(_)
Ascending(S) ==
    IF S = {} THEN << >>
    ELSE LET m == CHOOSE x \in S : \A y \in S : x <= y
         IN << m >> \o Ascending(S \ {m})

LevelChildren(view, level) ==
    LET es == Ascending(MeshEdges(view.model))
        fs == Ascending(MeshFaces(view.model))
    IN [i \in 1 .. Len(es) |-> SubView(view, level, "edge", es[i])]
       \o [i \in 1 .. Len(fs) |-> SubView(view, level, "face", fs[i])]

\* Object3D.traverse over a view, restricted to its topology items: level by
\* level, the edges of a level before its faces.
RECURSIVE TraverseFrom(_, _)
TraverseFrom(view, level) ==
    IF level > view.levels \/ view.kind # "Solid" THEN << >>
    ELSE LevelChildren(view, level) \o TraverseFrom(view, level + 1)

Traverse(view) == TraverseFrom(view, 1)

Range(s) == { s[i] : i \in DOMAIN s }


\* -------------------------------------------------------------- materials
\* MaterialDatabase.materials after the constructor: the material objects by
\* key, each with its side (a new THREE.Material has side FrontSide).
NewMaterials ==
    [key \in {"point", "mesh"} |-> [side |-> "FrontSide"]]

\* grid.style of the buffers of the solids offered: no material is
\* registered under it.
GridStyle(obj, index) == "unstyled"

\* The material object materials.mesh(o) picks:
\* this.materials.get(o.style) ?? this.materials.get(hash("mesh")).
MeshMaterialKey(mats, style) ==
    IF style \in DOMAIN mats THEN style ELSE "mesh"

\* materials.mesh(o, doubleSided): sets the side of the material object it
\* picks (no clone is made) and returns that object.
MaterialsMesh(mats, style, doubleSided) ==
    [mats EXCEPT ![MeshMaterialKey(mats, style)].side =
        IF doubleSided THEN "FrontSide" ELSE "DoubleSide"]

\* object2mesh of a solid: materials.mesh(grid, mesh.IsClosed()) for every
\* grid of the mesh, in order; the other kinds leave the materials alone.
RECURSIVE MeshGrids(_, _, _, _)
MeshGrids(mats, obj, fs, i) ==
    IF i > Len(fs) THEN mats
    ELSE MeshGrids(MaterialsMesh(mats, GridStyle(obj, fs[i]), IsClosed(obj)),
                   obj, fs, i + 1)

MeshMaterials(mats, obj) ==
    IF IsA(obj) = "Solid" THEN MeshGrids(mats, obj, Ascending(MeshFaces(obj)), 1)
    ELSE mats

\* The material object the faces of a solid view hold.
FaceMaterial(view, t) == MeshMaterialKey(materials, GridStyle(view.model, t.index))

\* ------------------------------------------------ collections (JS Map/Set)
\* geometryModel is a Map in insertion order: a sequence of entries with
\* pairwise distinct ids.
MapKeys(g) == { g[i].id : i \in DOMAIN g }

MapHas(g, id) == id \in MapKeys(g)

MapGet(g, id) == g[CHOOSE i \in DOMAIN g : g[i].id = id]

\* Mutant: the map is replaced by one that holds the new entry only.
MapSet_Overwrite(g, id, view, model) ==
    << [id |-> id, view |-> view, model |-> model] >>

\* Map.set: an existing key keeps its position, a new key goes last.
MapSet(g, id, view, model) ==
    LET e == [id |-> id, view |-> view, model |-> model]
    IN IF MapHas(g, id)
       THEN [i \in DOMAIN g |-> IF g[i].id = id THEN e ELSE g[i]]
       ELSE Append(g, e)

\* Map.delete
MapDelete(g, id) == SelectSeq(g, LAMBDA e : e.id # id)

\* topologyModel is a Map from simpleName to a TopologyData object (an index
\* into recs); it is only ever read by key.
EmptyTopology == [k \in {} |-> 0]

TopologySet(t, key, r) == [k \in (DOMAIN t) \cup {key} |-> IF k = key THEN r ELSE t[k]]

TopologyDelete(t, key) == [k \in (DOMAIN t) \ {key} |-> t[k]]

EmptyCollections ==
    [geometryModel |-> << >>, topologyModel |-> EmptyTopology, hidden |-> {}]

\* The collections the database currently holds.
Live == cols[this]

ReplaceLive(c) == [cols EXCEPT ![this] = c]

\* What a collection triple holds, with the TopologyData objects read
\* through the heap.
ContentsIn(c, heap) ==
    [geometryModel |-> c.geometryModel,
     topologyModel |-> [k \in DOMAIN c.topologyModel |-> heap[c.topologyModel[k]]],
     hidden |-> c.hidden]

Contents(c) == ContentsIn(c, recs)

\* ------------------------------------------------------- topology records
NullHandle == << "null", "null", -1 >>

\* parent.GetFace(index) / parent.FindEdgeByName(name) when the kernel
\* answers.
TopologyHandle(obj, kind, index) == << obj, kind, index >>

\* Mutant: every encounter resolves the handle and files a new record under
\* the name.
AddTopologyItem_AlwaysNew(w, parent, t, outcome) ==
    IF IsA(parent) # "Solid" THEN [w EXCEPT !.thrown = TRUE]
    ELSE IF outcome = "throw" THEN [w EXCEPT !.thrown = TRUE]
    ELSE LET model == IF outcome = "null" THEN NullHandle
                      ELSE TopologyHandle(parent, t.kind, t.index)
         IN [topologyModel |->
                 TopologySet(w.topologyModel, t.simpleName, Len(w.recs) + 1),
             recs |-> Append(w.recs, [model |-> model, view |-> {t}]),
             thrown |-> FALSE]
\* addTopologyItem(parent, t) on walk state w = [topologyModel, recs, thrown];
\* outcome is what the kernel lookup does if it is made.
AddTopologyItem(w, parent, t, outcome) ==
    IF IsA(parent) # "Solid" THEN [w EXCEPT !.thrown = TRUE]
    ELSE IF t.simpleName \in DOMAIN w.topologyModel
    THEN LET r == w.topologyModel[t.simpleName]
         IN [w EXCEPT !.recs[r].view = @ \cup {t}]
    ELSE IF outcome = "throw" THEN [w EXCEPT !.thrown = TRUE]
    ELSE LET model == IF outcome = "null" THEN NullHandle
                      ELSE TopologyHandle(parent, t.kind, t.index)
         IN [topologyModel |->
                 TopologySet(w.topologyModel, t.simpleName, Len(w.recs) + 1),
             recs |-> Append(w.recs, [model |-> model, view |-> {t}]),
             thrown |-> FALSE]

\* view.traverse(t => addTopologyItem(model, t)): stops at the first throw.
RECURSIVE Walk(_, _, _, _, _)
Walk(w, parent, ts, i, outcomes) ==
    IF i > Len(ts) \/ w.thrown THEN w
    ELSE Walk(AddTopologyItem(w, parent, ts[i], outcomes[ts[i].simpleName]),
              parent, ts, i + 1, outcomes)

\* removeTopologyItems(parent): deletes the name of every topology item of
\* the view.
RECURSIVE DeleteAll(_, _, _)
DeleteAll(t, ts, i) ==
    IF i > Len(ts) THEN t
    ELSE DeleteAll(TopologyDelete(t, ts[i].simpleName), ts, i + 1)

\* Mutant: only the faces of the view are deleted.
RemoveTopologyItems_FacesOnly(t, view) ==
    DeleteAll(t, SelectSeq(Traverse(view), LAMBDA o : o.kind = "face"), 1)

RemoveTopologyItems(t, view) == DeleteAll(t, Traverse(view), 1)

\* ---------------------------------------------------------------- lookups
\* The lookups read the collections C = Contents(...) they are given; the
\* database's own read Contents(Live).
NotFound == [error |-> "not found"]

\* Mutant: a missing entry yields an empty pair instead of the throw.
LookupItemIn_Default(C, id) ==
    IF MapHas(C.geometryModel, id)
    THEN [view |-> MapGet(C.geometryModel, id).view,
          model |-> MapGet(C.geometryModel, id).model]
    ELSE [view |-> [ref |-> << "none", 0 >>, simpleName |-> -1, kind |-> "none",
                    model |-> "none", levels |-> 0],
          model |-> "none"]

\* lookupItemById: the entry, or the thrown error.
LookupItemIn(C, id) ==
    IF MapHas(C.geometryModel, id)
    THEN [view |-> MapGet(C.geometryModel, id).view,
          model |-> MapGet(C.geometryModel, id).model]
    ELSE NotFound

lookupItemById(id) == LookupItemIn(Contents(Live), id)

\* lookupTopologyItemById: the TopologyData, or the thrown error.
LookupTopologyIn(C, name) ==
    IF name \in DOMAIN C.topologyModel THEN C.topologyModel[name]
    ELSE NotFound

lookupTopologyItemById(name) == LookupTopologyIn(Contents(Live), name)

\* Mutant: find answers in the order of the identities.
FindIn_ByIdentity(C, klass) ==
    LET g == SelectSeq(C.geometryModel, LAMBDA e : e.view.kind = klass)
        ids == Ascending(MapKeys(g))
    IN [i \in DOMAIN g |-> MapGet(g, ids[i]).view]
\* find(klass), as the sequence of views in Map order.
FindIn(C, klass) ==
    LET g == SelectSeq(C.geometryModel, LAMBDA e : e.view.kind = klass)
    IN [i \in DOMAIN g |-> g[i].view]

find(klass) == FindIn(Contents(Live), klass)

VisibleIn(C) ==
    LET g == SelectSeq(C.geometryModel,
                       LAMBDA e : e.view.simpleName \notin C.hidden)
    IN [i \in DOMAIN g |-> g[i].view]

visibleObjects == VisibleIn(Contents(Live))

\* ---------------------------------------------------------------- picker
\* JS bit operators work on 32-bit integers. The operands below are
\* non-negative and small, except the identity itself, which is kept as its
\* two 16-bit halves.
RECURSIVE Pow2(_)
Pow2(n) == IF n = 0 THEN 1 ELSE 2 * Pow2(n - 1)

ShiftLeft(x, n) == x * Pow2(n)

ShiftRight(x, n) == x \div Pow2(n)

RECURSIVE BitAnd(_, _)
BitAnd(a, b) ==
    IF a = 0 \/ b = 0 THEN 0
    ELSE (a % 2) * (b % 2) + 2 * BitAnd(a \div 2, b \div 2)

RECURSIVE BitOr(_, _)
BitOr(a, b) ==
    IF a = 0 THEN b
    ELSE IF b = 0 THEN a
    ELSE (IF a % 2 = 1 \/ b % 2 = 1 THEN 1 ELSE 0)
         + 2 * BitOr(a \div 2, b \div 2)

NoId == [hi |-> 0, lo |-> 0]

\* throw new Error("precondition failure")
PreconditionFailure == [thrown |-> TRUE, id |-> NoId]

\* GPUPicker.compactTopologyId. `parentId <<= 16` keeps the low 16 bits of
\* parentId as the high half of a 32-bit integer; d << 8 and e lie in the
\* low half.
compactTopologyId(type, parentId, index) ==
    IF parentId > ShiftLeft(1, 16) THEN PreconditionFailure
    ELSE IF index > ShiftLeft(1, 15) THEN PreconditionFailure
    ELSE LET shifted == [hi |-> parentId % Pow2(16), lo |-> 0]
             c == ShiftLeft(IF type = "edge" THEN 0 ELSE 1, 7)
             d == BitOr(c, BitAnd(ShiftRight(index, 8), 239))
             e == BitAnd(ShiftRight(index, 0), 255)
         IN [thrown |-> FALSE,
             id |-> [hi |-> shifted.hi,
                     lo |-> BitOr(BitOr(shifted.lo, ShiftLeft(d, 8)), e)]]

\* GPUPicker.extract. `compact >> 16` is the high half read as a signed
\* 16-bit number (>> keeps the sign); `& 0xffff` is the low half.
extract(compact) ==
    LET low == compact.lo
    IN [parentId |-> IF compact.hi >= Pow2(15) THEN compact.hi - Pow2(16)
                     ELSE compact.hi,
        type |-> ShiftRight(low, 15),
        index |-> BitAnd(low, 32767)]

NoExtract == [parentId |-> 0, type |-> 0, index |-> 0]

\* GPUPicker.minimumEntityId
minimumEntityId == 1

\* The number a 32-bit identity is.
IdValue(id) ==
    (IF id.hi >= Pow2(15) THEN id.hi - Pow2(16) ELSE id.hi) * Pow2(16) + id.lo

\* GPUPicker.intersect on a pixel that holds the identity: 0 reads as
\* nothing under the cursor.
IntersectFinds(id) == IdValue(id) # 0

\* No compactTopologyId call was made yet.
NoPick ==
    [type |-> "none", parentId |-> 0, index |-> 0, thrown |-> FALSE,
     id |-> NoId, extracted |-> FALSE, out |-> NoExtract]

\* The arguments offered to compactTopologyId: small values, the last
\* values of each field and the values around the two limits.
PickerTypes == {"edge", "face"}

PickerParents ==
    {0, 1, 42, Pow2(15) - 1, Pow2(15), Pow2(16) - 1, Pow2(16), Pow2(16) + 1}

PickerIndices ==
    {0, 1, 7, 255, 256, Pow2(12) - 1, Pow2(12), Pow2(13),
     Pow2(15) - 1, Pow2(15), Pow2(15) + 1}

\* -------------------------------------------------------------- elements
\* signal.add(listener) and signal.remove(listener) on the number of
\* bindings of one listener: add of a listener already bound adds nothing.
SignalAdd(n) == IF n = 0 THEN 1 ELSE n

SignalRemove(n) == 0

NewOutliner ==
    [connected |-> FALSE, sceneGraphChanged |-> 0, selectionChanged |-> 0,
     shown |-> [solids |-> << >>, curves |-> << >>],
     renderedBy |-> "none", renderedConnected |-> FALSE]

\* Outliner.render called by `by`: lists db.find(visual.Solid) and
\* db.find(visual.SpaceInstance) of the store C as it is during the call.
OutlinerRender(o, C, by) ==
    [o EXCEPT !.shown = [solids |-> FindIn(C, "Solid"),
                         curves |-> FindIn(C, "SpaceInstance")],
              !.renderedBy = by,
              !.renderedConnected = o.connected]

\* The outliner after the dispatches sigs of a store operation: render runs
\* on sceneGraphChanged if it is bound to it.
OutlinerAfter(o, sigs) ==
    IF o.sceneGraphChanged > 0
       /\ \E n \in DOMAIN sigs : sigs[n].name = "sceneGraphChanged"
    THEN LET n == CHOOSE m \in DOMAIN sigs : sigs[m].name = "sceneGraphChanged"
         IN OutlinerRender(o, sigs[n].store, "sceneGraphChanged")
    ELSE o

NewPrompt ==
    [connected |-> FALSE, promptAdded |-> 0, promptRemoved |-> 0,
     disposed |-> FALSE, disposables |-> 0,
     renderedBy |-> "none", renderedConnected |-> FALSE]

\* Anon.render called by `by`.
PromptRender(q, by) ==
    [q EXCEPT !.renderedBy = by, !.renderedConnected = q.connected]

\* CompositeDisposable.add(new Disposable(...)): a disposed composite
\* takes nothing in.
CompositeAdd(q) ==
    IF q.disposed THEN q ELSE [q EXCEPT !.disposables = @ + 1]

\* CompositeDisposable.dispose(): the first call disposes what the
\* composite holds (each Disposable removes render from both signals), a
\* later call does nothing.
CompositeDispose(q) ==
    IF q.disposed THEN q
    ELSE [q EXCEPT !.disposed = TRUE,
                   !.disposables = 0,
                   !.promptAdded = IF q.disposables > 0 THEN SignalRemove(@) ELSE @,
                   !.promptRemoved = IF q.disposables > 0 THEN SignalRemove(@) ELSE @]

\* ------------------------------------------------------------ bookkeeping
\* The record of the last step: the operation, the view or kernel item or
\* memento it was given, the identity it works for, and what its caller got.
Last(op, view, obj, m, id, res) ==
    [op |-> op, view |-> view, obj |-> obj, m |-> m, id |-> id, res |-> res]

\* signal.dispatch(view): the notification, with the store as a listener
\* reads it while the dispatch runs.
Dispatch(name, view, c, heap) ==
    [name |-> name, view |-> view, store |-> ContentsIn(c, heap)]

Schedule(call) ==
    IF call.op = "addItem" THEN precision_distance
    ELSE temporary_precision_distance

\* An async call as it suspends at its first CreateMesh_async: `done` levels
\* are in the builder, `started` are the sags of the kernel calls made so
\* far, `tmp` names the preview the call is for (addTemporaryItem) or was
\* committed from (addItem by commit(); 0 otherwise), `then` is what the
\* caller chained on the promise.
NewCall(op, obj, id, tmp) ==
    LET call == [op |-> op, obj |-> obj, id |-> id, tmp |-> tmp, done |-> 0,
                 started |-> << >>, then |-> "none"]
    IN [call EXCEPT !.started = << Schedule(call)[1].sag >>]

\* The sags of the kernel calls of a schedule, in order.
Sags(schedule) == [i \in DOMAIN schedule |-> schedule[i].sag]

\* Mutant: once the first level is in, the kernel calls of all the other
\* schedule entries are started together.
NextLevel_AllAtOnce(call) ==
    [call EXCEPT !.done = @ + 1, !.started = Sags(Schedule(call))]

\* The call after object2mesh added a level: meshes() goes round its loop
\* and starts the kernel call of the next schedule entry, if there is one.
NextLevel(call) ==
    [call EXCEPT !.done = @ + 1,
                 !.started = IF call.done + 1 < Len(Schedule(call))
                             THEN Append(@, Schedule(call)[call.done + 2].sag)
                             ELSE @]

\* Views a caller can hold: returned by addItem, read from the store, or
\* read from the temporaryObjects scene.
Known ==
    returned \cup { Live.geometryModel[i].view : i \in DOMAIN Live.geometryModel }
             \cup temporaryObjects

Init ==
    /\ counter = 0
    /\ cols = << EmptyCollections >>
    /\ this = 1
    /\ recs = << >>
    /\ temporaryObjects = {}
    /\ disposed = {}
    /\ pending = {}
    /\ handles = {}
    /\ tempCalls = 0
    /\ returned = {}
    /\ faulty = 0
    /\ mementos = << >>
    /\ issued = << >>
    /\ signals = << >>
    /\ materials = NewMaterials
    /\ picker = NoPick
    /\ outliner = NewOutliner
    /\ prompt = NewPrompt
    /\ last = Last("new", NoView, "none", 0, -1, "ok")

\* ---------------------------------------------------------------- addItem
\* Mutant: the identity is the size of the map instead of counter++.
AddItemBegin_SizeAsId(obj) ==
    /\ counter < MaxItems
    /\ counter' = counter + 1
    /\ issued' = Append(issued, Len(Live.geometryModel))
    /\ pending' =
         IF BuilderKind(obj) = "unsupported" THEN pending
         ELSE pending \cup {NewCall("addItem", obj, Len(Live.geometryModel), 0)}

\* addItem up to its first await: counter++, then meshes() up to the first
\* CreateMesh_async (or its throw for an unsupported kind). tmp names the
\* preview whose commit() makes the call, 0 for a direct call.
AddItemFrom(obj, tmp) ==
    /\ counter < MaxItems
    /\ counter' = counter + 1
    /\ issued' = Append(issued, counter)
    /\ pending' =
         IF BuilderKind(obj) = "unsupported" THEN pending
         ELSE pending \cup {NewCall("addItem", obj, counter, tmp)}

AddItemBegin(obj) == AddItemFrom(obj, 0)

AddItemResult(obj) ==
    IF BuilderKind(obj) = "unsupported" THEN "type not yet supported"
    ELSE "pending"

AddItem(obj) ==
    /\ AddItemBegin(obj)
    /\ last' = Last("addItem", NoView, obj, 0, counter, AddItemResult(obj))
    /\ signals' = << >>
    /\ UNCHANGED << cols, this, recs, temporaryObjects, disposed, handles,
                    tempCalls, returned, mementos, faulty, materials, picker,
                    outliner, prompt >>

\* object2mesh after CreateMesh_async resolved with a usable mesh: the level
\* is added to the builder; meshes() then starts the call for the next level
\* or, after the last one, builds the view.
ObjectToMesh(call) ==
    /\ call \in pending
    /\ call.done < Len(Schedule(call))
    /\ pending' = (pending \ {call}) \cup {NextLevel(call)}
    /\ last' = Last("object2mesh", NoView, call.obj, 0, call.id,
                    IF call.done + 1 < Len(Schedule(call)) THEN "level"
                    ELSE "built")
    /\ signals' = << >>
    /\ materials' = MeshMaterials(materials, call.obj)
    /\ UNCHANGED << counter, cols, this, recs, temporaryObjects, disposed,
                    handles, tempCalls, returned, mementos, issued, faulty, picker,
                    outliner, prompt >>

\* Mutant: on a failed kernel call what was built so far is committed.
ObjectToMeshThrows_Commit(call, err) ==
    /\ call \in pending
    /\ call.done < Len(Schedule(call))
    /\ err \in {"kernel error", "Invalid precondition"}
    /\ pending' = pending \ {call}
    /\ last' = Last(call.op, NoView, call.obj, 0, call.id, err)
    /\ signals' = << >>
    /\ IF call.op = "addItem"
       THEN /\ cols' = ReplaceLive([Live EXCEPT !.geometryModel =
                        MapSet(@, call.id,
                               BuildView(<< "item", call.id >>, call.obj,
                                         call.id, call.done), call.obj)])
            /\ UNCHANGED temporaryObjects
       ELSE /\ temporaryObjects' = temporaryObjects \cup
                    {BuildView(<< "temp", call.tmp >>, call.obj, -1, call.done)}
            /\ UNCHANGED cols
    /\ UNCHANGED << counter, this, recs, disposed, handles, tempCalls,
                    returned, mementos, issued, faulty, materials, picker,
                    outliner, prompt >>

\* The errors object2mesh can end with: CreateMesh_async rejects, or a
\* region's mesh holds other than one buffer.
MeshErrors(obj) ==
    IF IsA(obj) = "PlaneInstance" THEN {"kernel error", "Invalid precondition"}
    ELSE {"kernel error"}

\* object2mesh throws: meshes() and the addItem / addTemporaryItem awaiting
\* it reject with the error.
ObjectToMeshThrows(call, err) ==
    /\ call \in pending
    /\ call.done < Len(Schedule(call))
    /\ err \in MeshErrors(call.obj)
    /\ pending' = pending \ {call}
    /\ last' = Last(call.op, NoView, call.obj, 0, call.id, err)
    /\ signals' = << >>
    /\ UNCHANGED << counter, cols, this, recs, temporaryObjects, disposed,
                    handles, tempCalls, returned, mementos, issued, faulty, materials, picker,
                    outliner, prompt >>

\* The names the topology walk of a view looks up in the kernel.
WalkNames(view) == { t.simpleName : t \in Range(Traverse(view)) }

\* Mutant: the two dispatches are made before the record is set and the
\* topology walked.
AddItemFinish_DispatchFirst(call, view, outcomes) ==
    LET g == MapSet(Live.geometryModel, call.id, view, call.obj)
        w0 == [topologyModel |-> Live.topologyModel, recs |-> recs,
               thrown |-> FALSE]
        w == IF view.kind = "Solid"
             THEN Walk(w0, call.obj, Traverse(view), 1, outcomes)
             ELSE w0
        c == [geometryModel |-> g, topologyModel |-> w.topologyModel,
              hidden |-> Live.hidden]
    IN [cols |-> ReplaceLive(c), recs |-> w.recs, thrown |-> w.thrown,
        signals |-> << Dispatch("objectAdded", view, Live, recs),
                       Dispatch("sceneGraphChanged", NoView, Live, recs) >>]

\* addItem after `await this.meshes(...)`: geometryModel.set, the topology
\* walk, then the two dispatches; all in one synchronous stretch.
\* The result is [cols, recs, thrown, signals].
AddItemFinish(call, view, outcomes) ==
    LET g == MapSet(Live.geometryModel, call.id, view, call.obj)
        w0 == [topologyModel |-> Live.topologyModel, recs |-> recs,
               thrown |-> FALSE]
        w == IF view.kind = "Solid"
             THEN Walk(w0, call.obj, Traverse(view), 1, outcomes)
             ELSE w0
        c == [geometryModel |-> g, topologyModel |-> w.topologyModel,
              hidden |-> Live.hidden]
    IN [cols |-> ReplaceLive(c), recs |-> w.recs, thrown |-> w.thrown,
        signals |-> IF w.thrown THEN << >>
                    ELSE << Dispatch("objectAdded", view, c, w.recs),
                            Dispatch("sceneGraphChanged", NoView, c, w.recs) >>]

\* The view addItem(call) gets from meshes().
ItemView(call) ==
    BuildView(<< "item", call.id >>, call.obj, call.id, call.done)

\* What the kernel may answer to the lookups of one walk.
WalkOutcomes(call) == [WalkNames(ItemView(call)) -> LookupOutcomes]

Faulty(outcomes) == \E n \in DOMAIN outcomes : outcomes[n] # "ok"

AddItemResolve(call, outcomes) ==
    /\ call \in pending
    /\ call.op = "addItem"
    /\ call.done = Len(Schedule(call))
    /\ outcomes \in WalkOutcomes(call)
    /\ LET view == ItemView(call)
           f == AddItemFinish(call, view, outcomes)
       IN /\ cols' = f.cols
          /\ recs' = f.recs
          /\ signals' = f.signals
          /\ returned' = IF f.thrown THEN returned ELSE returned \cup {view}
          /\ last' = Last("addItem", view, call.obj, 0, call.id,
                          IF f.thrown THEN "topology error" ELSE "ok")
    /\ faulty' = IF Faulty(outcomes) THEN faulty + 1 ELSE faulty
    /\ pending' = pending \ {call}
    /\ outliner' = OutlinerAfter(outliner, signals')
    /\ UNCHANGED << counter, this, temporaryObjects, disposed, handles,
                    tempCalls, mementos, issued, materials, picker, prompt >>


\* ------------------------------------------------------- addTemporaryItem
\* addTemporaryItem up to its first await: meshes(object, -1, [[0.005, 1]]).
AddTemporaryItem(obj) ==
    /\ tempCalls < MaxTemps
    /\ tempCalls' = tempCalls + 1
    /\ pending' =
         IF BuilderKind(obj) = "unsupported" THEN pending
         ELSE pending \cup {NewCall("addTemporaryItem", obj, -1, tempCalls + 1)}
    /\ last' = Last("addTemporaryItem", NoView, obj, 0, -1, AddItemResult(obj))
    /\ signals' = << >>
    /\ UNCHANGED << counter, cols, this, recs, temporaryObjects, disposed,
                    handles, returned, mementos, issued, faulty, materials, picker,
                    outliner, prompt >>

\* What runs when addTemporaryItem's promise resolves: the continuation the
\* caller chained on it, queued as a call of its own.
Continuations(call) ==
    IF call.then = "cancel" THEN {[call EXCEPT !.op = "then cancel"]} ELSE {}

\* Mutant: the preview is also filed in the Item Record map.
AddTemporaryItemResolve_Record(call) ==
    /\ call \in pending
    /\ call.op = "addTemporaryItem"
    /\ call.done = Len(Schedule(call))
    /\ LET mesh == BuildView(<< "temp", call.tmp >>, call.obj, -1, call.done)
       IN /\ temporaryObjects' = temporaryObjects \cup {mesh}
          /\ handles' = handles \cup {[mesh |-> mesh, object |-> call.obj]}
          /\ cols' = ReplaceLive([Live EXCEPT !.geometryModel =
                                    MapSet(@, -1, mesh, call.obj)])
          /\ last' = Last("addTemporaryItem", mesh, call.obj, 0, -1, "ok")
    /\ pending' = (pending \ {call}) \cup Continuations(call)
    /\ signals' = << >>
    /\ UNCHANGED << counter, this, recs, disposed, tempCalls, returned,
                    mementos, issued, faulty, materials, picker,
                    outliner, prompt >>

\* addTemporaryItem after its await: the mesh joins the scene and the
\* handle is returned.
AddTemporaryItemResolve(call) ==
    /\ call \in pending
    /\ call.op = "addTemporaryItem"
    /\ call.done = Len(Schedule(call))
    /\ LET mesh == BuildView(<< "temp", call.tmp >>, call.obj, -1, call.done)
       IN /\ temporaryObjects' = temporaryObjects \cup {mesh}
          /\ handles' = handles \cup {[mesh |-> mesh, object |-> call.obj]}
          /\ last' = Last("addTemporaryItem", mesh, call.obj, 0, -1, "ok")
    /\ pending' = (pending \ {call}) \cup Continuations(call)
    /\ signals' = << >>
    /\ UNCHANGED << counter, cols, this, recs, disposed, tempCalls, returned,
                    mementos, issued, faulty, materials, picker,
                    outliner, prompt >>

\* Mutant: cancel() disposes the mesh and leaves it in the workspace.
TemporaryCancel_DisposeOnly(h, res) ==
    /\ disposed' = disposed \cup {h.mesh}
    /\ last' = Last("cancel", h.mesh, h.object, 0, -1, res)
    /\ signals' = << >>
    /\ UNCHANGED << counter, cols, this, recs, handles, tempCalls,
                    returned, mementos, issued, faulty, materials, picker,
                    temporaryObjects,
                    outliner, prompt >>

\* Mutant: cancel() toggles the mesh's membership of the workspace.
TemporaryCancel_Toggle(h, res) ==
    /\ disposed' = disposed \cup {h.mesh}
    /\ temporaryObjects' = IF h.mesh \in temporaryObjects
                           THEN temporaryObjects \ {h.mesh}
                           ELSE temporaryObjects \cup {h.mesh}
    /\ last' = Last("cancel", h.mesh, h.object, 0, -1, res)
    /\ signals' = << >>
    /\ UNCHANGED << counter, cols, this, recs, handles, tempCalls,
                    returned, mementos, issued, faulty, materials, picker,
                    outliner, prompt >>

\* The body of TemporaryObject.cancel: dispose() frees the mesh's buffers
\* and Scene.remove drops it from the children, both repeatable.
TemporaryCancel(h, res) ==
    /\ disposed' = disposed \cup {h.mesh}
    /\ temporaryObjects' = temporaryObjects \ {h.mesh}
    /\ last' = Last("cancel", h.mesh, h.object, 0, -1, res)
    /\ signals' = << >>
    /\ UNCHANGED << counter, cols, this, recs, handles, tempCalls,
                    returned, mementos, issued, faulty, materials, picker,
                    outliner, prompt >>

\* TemporaryObject.cancel, called on a handle the caller holds.
Cancel(h) ==
    /\ h \in handles
    /\ TemporaryCancel(h, IF h.mesh \in disposed THEN "ok again" ELSE "ok")
    /\ UNCHANGED pending

\* The caller decides to cancel a preview whose build is still in progress.
\* addTemporaryItem hands out the TemporaryObject only when its promise
\* resolves, so all the caller can do is chain cancel() on the promise.
RequestCancel(call) ==
    /\ call \in pending
    /\ call.op = "addTemporaryItem"
    /\ call.then = "none"
    /\ pending' = (pending \ {call}) \cup {[call EXCEPT !.then = "cancel"]}
    /\ last' = Last("request cancel", NoView, call.obj, 0, -1, "ok")
    /\ signals' = << >>
    /\ UNCHANGED << counter, cols, this, recs, temporaryObjects, disposed,
                    handles, tempCalls, returned, mementos, issued, faulty,
                    materials, picker,
                    outliner, prompt >>

\* The chained continuation: cancel() of the TemporaryObject the promise
\* resolved with.
DeferredCancel(call) ==
    /\ call \in pending
    /\ call.op = "then cancel"
    /\ \E h \in handles :
          /\ h.mesh.ref = << "temp", call.tmp >>
          /\ TemporaryCancel(h, "ok deferred")
    /\ pending' = pending \ {call}

\* Mutant: commit() re-issues the item and leaves the preview in the
\* workspace.
Commit_KeepsPreview(h) ==
    /\ h \in handles
    /\ AddItemFrom(h.object, h.mesh.ref[2])
    /\ last' = Last("commit", h.mesh, h.object, 0, counter, AddItemResult(h.object))
    /\ signals' = << >>
    /\ UNCHANGED << cols, this, recs, disposed, handles, tempCalls, returned,
                    mementos, faulty, materials, picker, temporaryObjects,
                    outliner, prompt >>
\* TemporaryObject.commit
Commit(h) ==
    /\ h \in handles
    /\ temporaryObjects' = temporaryObjects \ {h.mesh}
    /\ AddItemFrom(h.object, h.mesh.ref[2])
    /\ last' = Last("commit", h.mesh, h.object, 0, counter, AddItemResult(h.object))
    /\ signals' = << >>
    /\ UNCHANGED << cols, this, recs, disposed, handles, tempCalls, returned,
                    mementos, faulty, materials, picker,
                    outliner, prompt >>

\* ------------------------------------------------------------- removeItem
\* Mutant: removeItem forgets the topology items.
RemoveItemCollections_KeepTopology(c, object) ==
    [geometryModel |-> MapDelete(c.geometryModel, object.simpleName),
     topologyModel |-> c.topologyModel,
     hidden |-> c.hidden \ {object.simpleName}]

\* The collections after removeItem(object).
RemoveItemCollections(c, object) ==
    [geometryModel |-> MapDelete(c.geometryModel, object.simpleName),
     topologyModel |-> RemoveTopologyItems(c.topologyModel, object),
     hidden |-> c.hidden \ {object.simpleName}]

RemoveItem(object) ==
    /\ object \in Known
    /\ LET c == RemoveItemCollections(Live, object)
       IN /\ cols' = ReplaceLive(c)
          /\ signals' = << Dispatch("objectRemoved", object, c, recs),
                           Dispatch("sceneGraphChanged", NoView, c, recs) >>
    /\ last' = Last("removeItem", object, object.model, 0, object.simpleName, "ok")
    /\ outliner' = OutlinerAfter(outliner, signals')
    /\ UNCHANGED << counter, this, recs, temporaryObjects, disposed, pending,
                    handles, tempCalls, returned, mementos, issued, faulty,
                    materials, picker, prompt >>

\* ------------------------------------------------------------ hide/unhide
\* Mutant: hiding takes the record out of the map.
Hide_DropsRecord(item) ==
    /\ item \in Known
    /\ cols' = ReplaceLive([Live EXCEPT
                    !.hidden = @ \cup {item.simpleName},
                    !.geometryModel = MapDelete(@, item.simpleName)])
    /\ last' = Last("hide", item, item.model, 0, item.simpleName,
                    IF item.simpleName \in Live.hidden THEN "already hidden"
                    ELSE "ok")
    /\ signals' = << >>
    /\ UNCHANGED << counter, this, recs, temporaryObjects, disposed, pending,
                    handles, tempCalls, returned, mementos, issued, faulty, materials, picker,
                    outliner, prompt >>

Hide(item) ==
    /\ item \in Known
    /\ cols' = ReplaceLive([Live EXCEPT !.hidden = @ \cup {item.simpleName}])
    /\ last' = Last("hide", item, item.model, 0, item.simpleName,
                    IF item.simpleName \in Live.hidden THEN "already hidden"
                    ELSE "ok")
    /\ signals' = << >>
    /\ UNCHANGED << counter, this, recs, temporaryObjects, disposed, pending,
                    handles, tempCalls, returned, mementos, issued, faulty, materials, picker,
                    outliner, prompt >>

\* Mutant: unhide clears the hidden set.
Unhide_Clear(item) ==
    /\ item \in Known
    /\ cols' = ReplaceLive([Live EXCEPT !.hidden = {}])
    /\ last' = Last("unhide", item, item.model, 0, item.simpleName,
                    IF last.op = "hide" /\ last.view = item THEN "after hide"
                    ELSE "ok")
    /\ signals' = << >>
    /\ UNCHANGED << counter, this, recs, temporaryObjects, disposed, pending,
                    handles, tempCalls, returned, mementos, issued, faulty, materials, picker,
                    outliner, prompt >>

Unhide(item) ==
    /\ item \in Known
    /\ cols' = ReplaceLive([Live EXCEPT !.hidden = @ \ {item.simpleName}])
    /\ last' = Last("unhide", item, item.model, 0, item.simpleName,
                    IF last.op = "hide" /\ last.view = item THEN "after hide"
                    ELSE "ok")
    /\ signals' = << >>
    /\ UNCHANGED << counter, this, recs, temporaryObjects, disposed, pending,
                    handles, tempCalls, returned, mementos, issued, faulty, materials, picker,
                    outliner, prompt >>

\* ------------------------------------------------- lookups as operations
\* The identities a caller may ask for.
LookupIds == -1 .. MaxItems

\* The sub-entity names a caller may ask for: those of the faces and edges
\* of the views it can hold.
LookupNames == UNION { WalkNames(v) : v \in Known }

\* A call of lookupItemById(id): Map.get and the throw, nothing else.
LookupItemById(id) ==
    /\ id \in LookupIds
    /\ LET r == lookupItemById(id)
       IN last' = IF r = NotFound
                  THEN Last("lookupItemById", NoView, "none", 0, id, "not found")
                  ELSE Last("lookupItemById", r.view, r.model, 0, id, "ok")
    /\ signals' = << >>
    /\ UNCHANGED << counter, cols, this, recs, temporaryObjects, disposed, pending,
                    handles, tempCalls, returned, mementos, issued, faulty, materials, picker,
                    outliner, prompt >>

\* A call of lookupTopologyItemById(name).
LookupTopologyItemById(name) ==
    /\ name \in LookupNames
    /\ last' = Last("lookupTopologyItemById",
                    [NoView EXCEPT !.kind = "TopologyItem", !.simpleName = name],
                    "none", 0, name[1],
                    IF lookupTopologyItemById(name) = NotFound THEN "not found"
                    ELSE "ok")
    /\ signals' = << >>
    /\ UNCHANGED << counter, cols, this, recs, temporaryObjects, disposed, pending,
                    handles, tempCalls, returned, mementos, issued, faulty, materials, picker,
                    outliner, prompt >>

\* --------------------------------------------------------------- mementos
\* new GeometryMemento(geometryModel, topologyModel, hidden): holds the three
\* collection objects it is given; its fields read them back.
GeometryMemento(ref) == ref

\* Mutant: the hidden set is not copied into the memento.
CopyCollections_DropHidden(c) ==
    [geometryModel |-> c.geometryModel, topologyModel |-> c.topologyModel,
     hidden |-> {}]

\* new Map(this.geometryModel), new Map(this.topologyModel),
\* new Set(this.hidden): new collection objects with the same entries (the
\* TopologyData objects themselves are shared).
CopyCollections(c) ==
    [geometryModel |-> c.geometryModel, topologyModel |-> c.topologyModel,
     hidden |-> c.hidden]

\* A memento with the history the properties read: what it held when taken,
\* whether a restore happened since, what its first restore produced.
MementoRecord(ref, held) ==
    [m |-> GeometryMemento(ref), taken |-> held, dirty |-> FALSE,
     restored |-> FALSE, first |-> held]

\* Mutant: the memento is given the live collections, not copies.
SaveToMemento_NoCopy ==
    /\ Len(mementos) < MaxMementos
    /\ cols' = cols
    /\ mementos' = Append(mementos, MementoRecord(this, Contents(Live)))
    /\ last' = Last("saveToMemento", NoView, "none", Len(mementos) + 1, -1, "ok")
    /\ signals' = << >>
    /\ UNCHANGED << counter, this, recs, temporaryObjects, disposed, pending,
                    handles, tempCalls, returned, issued, faulty, materials, picker,
                    outliner, prompt >>

SaveToMemento ==
    /\ Len(mementos) < MaxMementos
    /\ cols' = Append(cols, CopyCollections(Live))
    /\ mementos' = Append(mementos, MementoRecord(Len(cols) + 1, Contents(Live)))
    /\ last' = Last("saveToMemento", NoView, "none", Len(mementos) + 1, -1, "ok")
    /\ signals' = << >>
    /\ UNCHANGED << counter, this, recs, temporaryObjects, disposed, pending,
                    handles, tempCalls, returned, issued, faulty, materials, picker,
                    outliner, prompt >>

\* The collections the database points to after restoreFromMemento(m).
RestoredCollections(m) == m

RestoreFromMemento(i) ==
    /\ i \in DOMAIN mementos
    /\ this' = RestoredCollections(mementos[i].m)
    /\ mementos' =
         [j \in DOMAIN mementos |->
            IF j = i
            THEN [mementos[j] EXCEPT
                    !.dirty = TRUE, !.restored = TRUE,
                    !.first = IF mementos[j].restored THEN @
                              ELSE Contents(cols[mementos[j].m])]
            ELSE [mementos[j] EXCEPT !.dirty = TRUE]]
    /\ last' = Last("restoreFromMemento", NoView, "none", i, -1,
                    IF last.op = "saveToMemento" /\ last.m = i
                    THEN "round trip" ELSE "ok")
    /\ signals' = << >>
    /\ UNCHANGED << counter, cols, recs, temporaryObjects, disposed, pending,
                    handles, tempCalls, returned, issued, faulty, materials, picker,
                    outliner, prompt >>

\* ------------------------------------------------------------------- spec
\* Every operation of the database, with every kernel item.
Next ==
    \/ \E obj \in KernelItems : AddItem(obj)
    \/ \E call \in pending : ObjectToMesh(call)
    \/ \E call \in pending : \E err \in MeshErrors(call.obj) :
            ObjectToMeshThrows(call, err)
    \/ \E call \in pending : \E outcomes \in WalkOutcomes(call) :
            AddItemResolve(call, outcomes)
    \/ \E obj \in KernelItems : AddTemporaryItem(obj)
    \/ \E call \in pending : AddTemporaryItemResolve(call)
    \/ \E h \in handles : Cancel(h)
    \/ \E h \in handles : Commit(h)
    \/ \E object \in Known : RemoveItem(object)
    \/ \E item \in Known : Hide(item)
    \/ \E item \in Known : Unhide(item)
    \/ SaveToMemento
    \/ \E i \in DOMAIN mementos : RestoreFromMemento(i)
    \/ \E id \in LookupIds : LookupItemById(id)
    \/ \E name \in LookupNames : LookupTopologyItemById(name)

Spec == Init /\ [][Next]_vars

\* The kernel items the narrower specifications offer: a curve and a region
\* differ only in the region's buffer-count error.
StoreItems == {"curve", "solid", "point"}

\* addItem and removeItem alone: addItem calls overlap freely, the kernel
\* may fail any lookup of any walk.
NextStore ==
    \/ \E obj \in StoreItems : AddItem(obj)
    \/ \E call \in pending : ObjectToMesh(call)
    \/ \E call \in pending : \E err \in MeshErrors(call.obj) :
            ObjectToMeshThrows(call, err)
    \/ \E call \in pending : \E outcomes \in WalkOutcomes(call) :
            AddItemResolve(call, outcomes)
    \/ \E object \in Known : RemoveItem(object)

SpecStore == Init /\ [][NextStore]_vars

\* The store with hiding and mementos; at most MaxInFlight addItem calls are
\* suspended at a time and at most MaxFaultyWalks walks meet a failing
\* kernel lookup.
NextMemento ==
    \/ /\ Cardinality(pending) < MaxInFlight
       /\ \E obj \in StoreItems : AddItem(obj)
    \/ \E call \in pending : ObjectToMesh(call)
    \/ \E call \in pending : \E err \in MeshErrors(call.obj) :
            ObjectToMeshThrows(call, err)
    \/ \E call \in pending : \E outcomes \in WalkOutcomes(call) :
            /\ faulty < MaxFaultyWalks \/ ~Faulty(outcomes)
            /\ AddItemResolve(call, outcomes)
    \/ \E object \in Known : RemoveItem(object)
    \/ \E item \in Known : Hide(item)
    \/ \E item \in Known : Unhide(item)
    \/ SaveToMemento
    \/ \E i \in DOMAIN mementos : RestoreFromMemento(i)

SpecMemento == Init /\ [][NextMemento]_vars

\* The store with previews, without mementos and hiding.
NextPreview ==
    \/ \E obj \in StoreItems : AddItem(obj)
    \/ \E call \in pending : ObjectToMesh(call)
    \/ \E call \in pending : \E err \in MeshErrors(call.obj) :
            ObjectToMeshThrows(call, err)
    \/ \E call \in pending : \E outcomes \in WalkOutcomes(call) :
            AddItemResolve(call, outcomes)
    \/ \E obj \in StoreItems : AddTemporaryItem(obj)
    \/ \E call \in pending : AddTemporaryItemResolve(call)
    \/ \E h \in handles : Cancel(h)
    \/ \E h \in handles : Commit(h)
    \/ \E object \in Known : RemoveItem(object)

SpecPreview == Init /\ [][NextPreview]_vars

\* addItem, removeItem and the two lookups.
NextLookup ==
    \/ \E obj \in StoreItems : AddItem(obj)
    \/ \E call \in pending : ObjectToMesh(call)
    \/ \E call \in pending : \E err \in MeshErrors(call.obj) :
            ObjectToMeshThrows(call, err)
    \/ \E call \in pending : \E outcomes \in WalkOutcomes(call) :
            AddItemResolve(call, outcomes)
    \/ \E object \in Known : RemoveItem(object)
    \/ \E id \in LookupIds : LookupItemById(id)
    \/ \E name \in LookupNames : LookupTopologyItemById(name)

SpecLookup == Init /\ [][NextLookup]_vars

\* Hiding over items and previews: addItem, addTemporaryItem, removeItem,
\* hide and unhide.
NextHide ==
    \/ \E obj \in StoreItems : AddItem(obj)
    \/ \E call \in pending : ObjectToMesh(call)
    \/ \E call \in pending : \E err \in MeshErrors(call.obj) :
            ObjectToMeshThrows(call, err)
    \/ \E call \in pending : \E outcomes \in WalkOutcomes(call) :
            AddItemResolve(call, outcomes)
    \/ \E obj \in StoreItems : AddTemporaryItem(obj)
    \/ \E call \in pending : AddTemporaryItemResolve(call)
    \/ \E object \in Known : RemoveItem(object)
    \/ \E item \in Known : Hide(item)
    \/ \E item \in Known : Unhide(item)

SpecHide == Init /\ [][NextHide]_vars

\* Overlapping builds: addItem calls of curves, closed and open solids with
\* a kernel that answers every call.
BuildItems == {"curve", "solid", "shell"}

AllOk(call) == [n \in WalkNames(ItemView(call)) |-> "ok"]

NextBuilds ==
    \/ \E obj \in BuildItems : AddItem(obj)
    \/ \E call \in pending : ObjectToMesh(call)
    \/ \E call \in pending : AddItemResolve(call, AllOk(call))

SpecBuilds == Init /\ [][NextBuilds]_vars

\* What a step of ObjectToMesh(call) and of AddItemResolve(call, ...) does
\* to the set of suspended calls; no other step of NextBuilds does either.
Resumed(call) ==
    /\ call.done < Len(Schedule(call))
    /\ pending' = (pending \ {call}) \cup {NextLevel(call)}

Finalized(call) ==
    /\ call.done = Len(Schedule(call))
    /\ pending' = pending \ {call}

\* The kernel resolves every call and the event loop runs every
\* continuation whose await has resolved.
SpecBuildsFair ==
    /\ SpecBuilds
    /\ \A id \in 0 .. MaxItems :
         WF_pending(\E call \in pending :
                       call.id = id /\ (Resumed(call) \/ Finalized(call)))

\* Cancelling previews while items and previews are being built. The
\* continuation chained on a promise is a microtask: once queued it runs
\* before the event loop takes up anything else.
Microtasks == { call \in pending : call.op = "then cancel" }

NextCancel ==
    \/ Microtasks = {} /\ \E obj \in StoreItems : AddItem(obj)
    \/ Microtasks = {} /\ \E call \in pending : ObjectToMesh(call)
    \/ Microtasks = {} /\ \E call \in pending :
            \E err \in MeshErrors(call.obj) : ObjectToMeshThrows(call, err)
    \/ Microtasks = {} /\ \E call \in pending : AddItemResolve(call, AllOk(call))
    \/ Microtasks = {} /\ \E obj \in StoreItems : AddTemporaryItem(obj)
    \/ Microtasks = {} /\ \E call \in pending : RequestCancel(call)
    \/ Microtasks = {} /\ \E call \in pending : AddTemporaryItemResolve(call)
    \/ Microtasks = {} /\ \E h \in handles : Cancel(h)
    \/ \E call \in Microtasks : DeferredCancel(call)

SpecCancel == Init /\ [][NextCancel]_vars

\* What the last step of a preview's build and the chained cancel() do to
\* the set of suspended calls.
TemporaryFinalized(call) ==
    /\ call.op = "addTemporaryItem"
    /\ call.done = Len(Schedule(call))
    /\ pending' = (pending \ {call}) \cup Continuations(call)

Cancelled(call) ==
    /\ call.op = "then cancel"
    /\ pending' = pending \ {call}

\* The kernel resolves (or fails) every tessellation of a preview and the
\* event loop runs every continuation whose promise has resolved.
SpecCancelFair ==
    /\ SpecCancel
    /\ \A t \in 1 .. MaxTemps :
         WF_pending(\E call \in pending :
                       /\ call.tmp = t
                       /\ call.op # "addItem"
                       /\ \/ Resumed(call)
                          \/ TemporaryFinalized(call)
                          \/ Cancelled(call))

\* The picker's identity encoding, on its own.
CompactTopologyId(type, parentId, index) ==
    /\ picker' = [type |-> type, parentId |-> parentId, index |-> index,
                  thrown |-> compactTopologyId(type, parentId, index).thrown,
                  id |-> compactTopologyId(type, parentId, index).id,
                  extracted |-> FALSE, out |-> NoExtract]
    /\ UNCHANGED << counter, cols, this, recs, temporaryObjects, disposed,
                    pending, handles, tempCalls, returned, faulty, mementos,
                    issued, signals, materials, last,
                    outliner, prompt >>

\* extract of the identity the last call returned.
Extract ==
    /\ picker.type # "none"
    /\ ~picker.thrown
    /\ ~picker.extracted
    /\ picker' = [picker EXCEPT !.extracted = TRUE, !.out = extract(picker.id)]
    /\ UNCHANGED << counter, cols, this, recs, temporaryObjects, disposed,
                    pending, handles, tempCalls, returned, faulty, mementos,
                    issued, signals, materials, last,
                    outliner, prompt >>

NextPicker ==
    \/ \E type \in PickerTypes : \E parentId \in PickerParents :
          \E index \in PickerIndices : CompactTopologyId(type, parentId, index)
    \/ Extract

SpecPicker == Init /\ [][NextPicker]_vars

\* The elements: the browser connects an element that is not connected and
\* disconnects one that is; the editor dispatches the signals they listen to.
OutlinerConnectedCallback ==
    /\ ~outliner.connected
    /\ outliner' =
         [OutlinerRender(outliner, Contents(Live), "connectedCallback")
            EXCEPT !.connected = TRUE,
                   !.sceneGraphChanged = SignalAdd(@),
                   !.selectionChanged = SignalAdd(@)]
    /\ last' = Last("Outliner.connectedCallback", NoView, "none", 0, -1, "ok")
    /\ signals' = << >>
    /\ UNCHANGED << counter, cols, this, recs, temporaryObjects, disposed,
                    pending, handles, tempCalls, returned, faulty, mementos,
                    issued, materials, picker, prompt >>

OutlinerDisconnectedCallback ==
    /\ outliner.connected
    /\ outliner' =
         [outliner EXCEPT !.connected = FALSE,
                          !.sceneGraphChanged = SignalRemove(@),
                          !.selectionChanged = SignalAdd(@)]
    /\ last' = Last("Outliner.disconnectedCallback", NoView, "none", 0, -1, "ok")
    /\ signals' = << >>
    /\ UNCHANGED << counter, cols, this, recs, temporaryObjects, disposed,
                    pending, handles, tempCalls, returned, faulty, mementos,
                    issued, materials, picker, prompt >>

\* editor.signals.selectionChanged.dispatch()
SelectionChanged ==
    /\ outliner' =
         IF outliner.selectionChanged > 0
         THEN OutlinerRender(outliner, Contents(Live), "selectionChanged")
         ELSE outliner
    /\ last' = Last("selectionChanged", NoView, "none", 0, -1, "ok")
    /\ signals' = << Dispatch("selectionChanged", NoView, Live, recs) >>
    /\ UNCHANGED << counter, cols, this, recs, temporaryObjects, disposed,
                    pending, handles, tempCalls, returned, faulty, mementos,
                    issued, materials, picker, prompt >>

PromptConnectedCallback ==
    /\ ~prompt.connected
    /\ prompt' =
         PromptRender(
            CompositeAdd([prompt EXCEPT !.connected = TRUE,
                                        !.promptAdded = SignalAdd(@),
                                        !.promptRemoved = SignalAdd(@)]),
            "connectedCallback")
    /\ last' = Last("Anon.connectedCallback", NoView, "none", 0, -1, "ok")
    /\ signals' = << >>
    /\ UNCHANGED << counter, cols, this, recs, temporaryObjects, disposed,
                    pending, handles, tempCalls, returned, faulty, mementos,
                    issued, materials, picker, outliner >>

PromptDisconnectedCallback ==
    /\ prompt.connected
    /\ prompt' = CompositeDispose([prompt EXCEPT !.connected = FALSE])
    /\ last' = Last("Anon.disconnectedCallback", NoView, "none", 0, -1, "ok")
    /\ signals' = << >>
    /\ UNCHANGED << counter, cols, this, recs, temporaryObjects, disposed,
                    pending, handles, tempCalls, returned, faulty, mementos,
                    issued, materials, picker, outliner >>

\* editor.signals.promptAdded.dispatch(prompt) / promptRemoved.dispatch()
PromptSignals == {"promptAdded", "promptRemoved"}

PromptDispatched(name) ==
    /\ prompt' = IF prompt[name] > 0 THEN PromptRender(prompt, name) ELSE prompt
    /\ last' = Last(name, NoView, "none", 0, -1, "ok")
    /\ signals' = << Dispatch(name, NoView, Live, recs) >>
    /\ UNCHANGED << counter, cols, this, recs, temporaryObjects, disposed,
                    pending, handles, tempCalls, returned, faulty, mementos,
                    issued, materials, picker, outliner >>

\* The store with the two elements listening.
NextElements ==
    \/ \E obj \in BuildItems : AddItem(obj)
    \/ \E call \in pending : ObjectToMesh(call)
    \/ \E call \in pending : AddItemResolve(call, AllOk(call))
    \/ \E object \in Known : RemoveItem(object)
    \/ OutlinerConnectedCallback
    \/ OutlinerDisconnectedCallback
    \/ SelectionChanged
    \/ PromptConnectedCallback
    \/ PromptDisconnectedCallback
    \/ \E name \in PromptSignals : PromptDispatched(name)

SpecElements == Init /\ [][NextElements]_vars

\* The picker's encoding applied to the sub-entities of the solids the
\* store holds: the parent's identity, the kind and the index of a name in
\* the Topology Index.
CompactSubEntity(name) ==
    /\ name \in DOMAIN Live.topologyModel
    /\ CompactTopologyId(name[2], name[1], name[3])

NextSubEntities ==
    \/ \E obj \in BuildItems : AddItem(obj)
    \/ \E call \in pending : ObjectToMesh(call)
    \/ \E call \in pending : AddItemResolve(call, AllOk(call))
    \/ \E name \in DOMAIN Live.topologyModel : CompactSubEntity(name)
    \/ Extract

SpecSubEntities == Init /\ [][NextSubEntities]_vars

\* ================================================================ claims
StrictlyIncreasing(q) == \A i, j \in DOMAIN q : i < j => q[i] < q[j]

DistinctIds(g) == \A i, j \in DOMAIN g : i # j => g[i].id # g[j].id

AddItemCalls == { call \in pending : call.op = "addItem" }

\* C1: the identities handed out are strictly increasing, so none is handed
\* out twice, also after removals and restores; no two Item Records of a
\* collection share an identity, every record is filed under the identity
\* of its view, and a call still in flight holds an identity no record and
\* no other call has.
C1_IdentitiesFresh ==
    /\ StrictlyIncreasing(issued)
    /\ \A k \in DOMAIN cols :
         /\ DistinctIds(cols[k].geometryModel)
         /\ MapKeys(cols[k].geometryModel) \subseteq Range(issued)
         /\ \A i \in DOMAIN cols[k].geometryModel :
              cols[k].geometryModel[i].view.simpleName = cols[k].geometryModel[i].id
    /\ \A c1 \in AddItemCalls :
         /\ c1.id \in Range(issued)
         /\ \A k \in DOMAIN cols : ~MapHas(cols[k].geometryModel, c1.id)
         /\ \A c2 \in AddItemCalls : c1.id = c2.id => c1 = c2

\* C1 witness: item 0 was added, saved, removed and restored, and a second
\* addItem then finished under identity 1.
C1_Witness ==
    /\ last.op = "addItem" /\ last.res = "ok" /\ last.id = 1
    /\ mementos # << >> /\ mementos[1].restored
    /\ MapKeys(Live.geometryModel) = {0, 1}
    /\ \E v \in returned : v.simpleName = 0 /\ v \in Range(VisibleIn(mementos[1].taken))

\* The topology walk of a solid view is complete in collections C: every
\* face and edge of every level is in the view set of the record of its name.
WalkComplete(C, view) ==
    \A t \in Range(Traverse(view)) :
        /\ t.simpleName \in DOMAIN C.topologyModel
        /\ t \in C.topologyModel[t.simpleName].view

\* C2: addItem appears atomic: every solid in the Item Record map has its
\* complete topology, and every objectAdded / sceneGraphChanged of an
\* addItem is dispatched with the record inserted and the topology complete.
C2_AddItemAtomic ==
    /\ \A i \in DOMAIN Live.geometryModel :
         Live.geometryModel[i].view.kind = "Solid"
            => WalkComplete(Contents(Live), Live.geometryModel[i].view)
    /\ last.op = "addItem" =>
         \A n \in DOMAIN signals :
            /\ MapHas(signals[n].store.geometryModel, last.id)
            /\ WalkComplete(signals[n].store, last.view)

MementoContents(i) == Contents(cols[mementos[i].m])

\* C3: once a memento was restored, later mutations of the store do not
\* change what it holds: it still holds what its first restore produced.
C3_MementoUnchangedAfterRestore ==
    \A i \in DOMAIN mementos :
        mementos[i].restored => MementoContents(i) = mementos[i].first

\* C4: a memento that was taken and not followed by any restore holds what
\* it held when it was taken, whatever addItem, removeItem, hide and unhide
\* did to the store since.
C4_MementoIsolated ==
    \A i \in DOMAIN mementos :
        ~mementos[i].dirty => MementoContents(i) = mementos[i].taken

\* C4 witness: with no restore since the memento was taken, the store has
\* moved on in all three collections.
C4_Witness ==
    \E i \in DOMAIN mementos :
        /\ ~mementos[i].dirty
        /\ mementos[i].taken.geometryModel # << >>
        /\ Contents(Live).geometryModel # mementos[i].taken.geometryModel
        /\ DOMAIN Contents(Live).topologyModel # DOMAIN mementos[i].taken.topologyModel
        /\ Contents(Live).hidden # mementos[i].taken.hidden

\* C5: right after restoreFromMemento(m) the three collections are exactly
\* what they were when m was taken.
C5_RestoreReplaces ==
    last.op = "restoreFromMemento"
        => Contents(Live) = mementos[last.m].taken

\* What a reader sees of collections C: visibleObjects, lookupItemById of
\* every identity and lookupTopologyItemById of every sub-entity name.
Identities == -1 .. MaxItems

Names == { TopologySimpleName(id, kind, index) :
             id \in Identities, kind \in {"edge", "face"}, index \in {0, 1} }

Observe(C) ==
    [visible |-> VisibleIn(C),
     items |-> [id \in Identities |-> LookupItemIn(C, id)],
     topology |-> [name \in Names |-> LookupTopologyIn(C, name)]]

\* C6: saveToMemento immediately followed by restoreFromMemento of that
\* memento leaves visibleObjects and every lookup as they were at the save.
C6_RoundTrip ==
    (last.op = "restoreFromMemento" /\ last.res = "round trip")
        => Observe(Contents(Live)) = Observe(mementos[last.m].taken)

\* C6 witness: a round trip over a store with a visible solid, its topology
\* and a hidden item.
C6_Witness ==
    /\ last.op = "restoreFromMemento" /\ last.res = "round trip"
    /\ Len(Live.geometryModel) = 2
    /\ Len(visibleObjects) = 1
    /\ DOMAIN Live.topologyModel # {}

\* C7: right after removeItem(view), lookupItemById of the view's identity
\* fails and so does lookupTopologyItemById of every face and edge of every
\* level of the view.
C7_RemovedItemGone ==
    last.op = "removeItem" =>
        /\ lookupItemById(last.view.simpleName) = NotFound
        /\ \A t \in Range(Traverse(last.view)) :
              lookupTopologyItemById(t.simpleName) = NotFound

\* C7 witness: the view removed is a solid that addItem returned and whose
\* topology records were made (they are still on the heap), while another
\* item stays.
C7_Witness ==
    /\ last.op = "removeItem"
    /\ last.view \in returned /\ last.view.kind = "Solid"
    /\ \A t \in Range(Traverse(last.view)) :
          \E r \in DOMAIN recs : t \in recs[r].view
    /\ Live.geometryModel # << >>

\* C8: every name in the Topology Index belongs to a parent identity that is
\* in the Item Record map.
C8_NoGarbageTopology ==
    \A name \in DOMAIN Live.topologyModel :
        MapHas(Live.geometryModel, name[1])

\* C8 witness: a solid whose addItem failed in the topology walk keeps part
\* of its topology, after a memento was restored and another item removed.
C8_Witness ==
    /\ last.op = "removeItem" /\ last.view.kind = "Solid"
    /\ faulty = 1
    /\ DOMAIN Live.topologyModel # {}
    /\ mementos # << >> /\ mementos[1].restored

\* C9: every face and edge of every solid in the Item Record map has a
\* Topology Record with a kernel handle that is not null.
C9_SubEntitiesResolve ==
    \A i \in DOMAIN Live.geometryModel :
        Live.geometryModel[i].view.kind = "Solid" =>
            \A t \in Range(Traverse(Live.geometryModel[i].view)) :
                /\ lookupTopologyItemById(t.simpleName) # NotFound
                /\ lookupTopologyItemById(t.simpleName).model # NullHandle

\* C10: when a kernel tessellation call of addItem or addTemporaryItem
\* fails, the caller gets the error, the step changes none of the Item
\* Record map, Topology Index, Hidden Set and Transient Workspace, dispatches
\* nothing, and nothing of that item is in the store.
C10_KernelFailureCommitsNothing ==
    [][ last'.res = "kernel error" =>
          /\ last'.op \in {"addItem", "addTemporaryItem"}
          /\ UNCHANGED << cols, this, recs, temporaryObjects >>
          /\ signals' = << >>
          /\ last'.op = "addItem" =>
               /\ ~MapHas(Live'.geometryModel, last'.id)
               /\ \A name \in DOMAIN Live'.topologyModel : name[1] # last'.id
      ]_vars

\* C10 witness: the kernel call of an addItem failed while the store holds
\* an item and a preview.
C10_Witness ==
    /\ last.res = "kernel error" /\ last.op = "addItem"
    /\ Live.geometryModel # << >>
    /\ temporaryObjects # {}

SupportedKinds == {"SpaceInstance", "PlaneInstance", "Solid"}

\* C11: addItem or addTemporaryItem of a kernel item that is no curve,
\* region or solid ends with the unsupported-type error in the step that
\* calls it: no kernel call is left pending, the Item Records, Topology
\* Records, Hidden Set and Transient Workspace are unchanged and nothing is
\* dispatched.
C11_UnsupportedKind ==
    [][ ( /\ last'.op \in {"addItem", "addTemporaryItem"}
          /\ last'.res \in {"pending", "type not yet supported"}
          /\ IsA(last'.obj) \notin SupportedKinds )
        => /\ last'.res = "type not yet supported"
           /\ pending' = pending
           /\ UNCHANGED << cols, this, recs, temporaryObjects >>
           /\ signals' = << >>
      ]_vars

\* C11 witness: addItem of a point was refused while the store holds an
\* item and a preview.
C11_Witness ==
    /\ last.op = "addItem" /\ last.res = "type not yet supported"
    /\ IsA(last.obj) = "Point3D"
    /\ Live.geometryModel # << >>
    /\ temporaryObjects # {}

\* C12: removeItem of a view whose identity is not in the Item Record map
\* gives its caller an error, changes no collection and dispatches nothing.
C12_RemoveAbsentFails ==
    [][ (last'.op = "removeItem" /\ ~MapHas(Live.geometryModel, last'.id))
        => /\ last'.res # "ok"
           /\ UNCHANGED << cols, this, recs >>
           /\ signals' = << >>
      ]_vars

\* The view of the record the addItem that issued id made: built for id
\* with every level of the schedule, and the view that addItem returned if
\* it returned one.
RecordedBy(id, e) ==
    /\ e.view.simpleName = id
    /\ e.view.ref = << "item", id >>
    /\ e.view.levels = Len(precision_distance)
    /\ e.view.kind = BuilderKind(e.model)
    /\ e.view.model = e.model
    /\ \A v \in returned : v.simpleName = id => v = e.view

\* The TopologyData a walk recorded under a name of solid `parent`: views of
\* that name and parent only, and the handle the kernel gave for it.
RecordedUnder(name, parent, r) ==
    /\ r.view # {}
    /\ \A t \in r.view : t.simpleName = name /\ t.parent = << "item", name[1] >>
    /\ r.model \in {TopologyHandle(parent, name[2], name[3]), NullHandle}

\* C13: a call of lookupItemById(id) returns the {view, model} pair the
\* addItem of id recorded when id is in the map and fails with not-found
\* otherwise; lookupTopologyItemById does the same for sub-entity names;
\* neither changes anything in the store.
C13_LookupsExact ==
    [][ /\ last'.op \in {"lookupItemById", "lookupTopologyItemById"} =>
             UNCHANGED << counter, cols, this, recs, temporaryObjects,
                          disposed, pending, handles, tempCalls, returned,
                          mementos, issued, materials >>
        /\ last'.op = "lookupItemById" =>
             IF MapHas(Live.geometryModel, last'.id)
             THEN /\ last'.res = "ok"
                  /\ lookupItemById(last'.id) =
                        [view |-> last'.view, model |-> last'.obj]
                  /\ RecordedBy(last'.id, lookupItemById(last'.id))
             ELSE /\ last'.res = "not found"
                  /\ lookupItemById(last'.id) = NotFound
        /\ last'.op = "lookupTopologyItemById" =>
             LET name == last'.view.simpleName
             IN IF name \in DOMAIN Live.topologyModel
                THEN /\ last'.res = "ok"
                     /\ lookupTopologyItemById(name) = recs[Live.topologyModel[name]]
                     /\ RecordedUnder(name,
                                      MapGet(Live.geometryModel, name[1]).model,
                                      lookupTopologyItemById(name))
                ELSE /\ last'.res = "not found"
                     /\ lookupTopologyItemById(name) = NotFound
      ]_vars

\* C13 witness: lookupItemById found the solid addItem returned, after
\* another item was removed from the store.
C13_Witness ==
    /\ last.op = "lookupItemById" /\ last.res = "ok"
    /\ last.view \in returned /\ last.view.kind = "Solid"
    /\ Len(issued) = 2 /\ Len(Live.geometryModel) = 1
    /\ DOMAIN Live.topologyModel # {}

\* C14: the Hidden Set is a subset of the keys of the Item Record map.
C14_HiddenSubset ==
    Live.hidden \subseteq MapKeys(Live.geometryModel)

\* C15: hide and unhide change the Hidden Set membership of the given item
\* only: the Item Record map, the Topology Index, the Transient Workspace,
\* the counter and the hidden status of every other item stay as they were.
C15_HideFrame ==
    [][ last'.op \in {"hide", "unhide"} =>
          /\ Contents(Live)'.geometryModel = Contents(Live).geometryModel
          /\ Contents(Live)'.topologyModel = Contents(Live).topologyModel
          /\ UNCHANGED << temporaryObjects, counter >>
          /\ Live'.hidden \ {last'.id} = Live.hidden \ {last'.id}
          /\ last'.op = "hide" => last'.id \in Live'.hidden
          /\ last'.op = "unhide" => last'.id \notin Live'.hidden
      ]_vars

\* C15 witness: an item of the store was unhidden while another stays
\* hidden, with topology records and a preview around.
C15_Witness ==
    /\ last.op = "unhide"
    /\ MapHas(Live.geometryModel, last.id)
    /\ Live.hidden \cap MapKeys(Live.geometryModel) # {}
    /\ DOMAIN Live.topologyModel # {}
    /\ temporaryObjects # {}

\* visibleObjects as it was before the hide that the last step made.
VisibleBeforeHide ==
    VisibleIn([Contents(Live) EXCEPT !.hidden =
                  IF last.res = "already hidden" THEN @ ELSE @ \ {last.id}])

\* C16: for an item of the store, hidden or visible before, hide(item)
\* followed by unhide(item) leaves the membership of visibleObjects as it
\* was before the pair and the item's record as it was.
C16_HideUnhideNoop ==
    [][ ( /\ last.op = "hide" /\ last'.op = "unhide" /\ last'.view = last.view
          /\ MapHas(Live.geometryModel, last.id) )
        => /\ Range(visibleObjects') = Range(VisibleBeforeHide)
           /\ lookupItemById(last.id)' = lookupItemById(last.id)
      ]_vars

\* C16 as amended: for an item of the store that is visible before,
\* hide(item) followed by unhide(item) leaves visibleObjects as it was; an
\* item that was hidden before is visible after the pair and nothing else of
\* visibleObjects changes; the item's record is as it was in both cases.
C16_HideUnhideOfVisible ==
    [][ ( /\ last.op = "hide" /\ last'.op = "unhide" /\ last'.view = last.view
          /\ MapHas(Live.geometryModel, last.id) )
        => /\ last.res = "ok" => visibleObjects' = VisibleBeforeHide
           /\ last.res = "already hidden" =>
                Range(visibleObjects') =
                    Range(VisibleBeforeHide) \cup {last.view}
           /\ lookupItemById(last.id)' = lookupItemById(last.id)
      ]_vars

\* C16 witness: a visible item of the store was hidden and unhidden again
\* while another item stays hidden.
C16_Witness ==
    /\ last.op = "unhide" /\ last.res = "after hide"
    /\ last.view \in Range(visibleObjects)
    /\ Live.hidden \cap MapKeys(Live.geometryModel) # {}

\* C17: a successful addItem dispatches objectAdded(view) and then
\* sceneGraphChanged, removeItem dispatches objectRemoved(view) and then
\* sceneGraphChanged, each once, in the step that ends the operation and
\* with every collection already updated; no other step dispatches.
C17_Notifications ==
    /\ (last.op = "addItem" /\ last.res = "ok") =>
          signals = << Dispatch("objectAdded", last.view, Live, recs),
                       Dispatch("sceneGraphChanged", NoView, Live, recs) >>
    /\ last.op = "removeItem" =>
          signals = << Dispatch("objectRemoved", last.view, Live, recs),
                       Dispatch("sceneGraphChanged", NoView, Live, recs) >>
    /\ ~(last.op = "addItem" /\ last.res = "ok") /\ last.op # "removeItem"
          => signals = << >>

\* C17 witness: a solid was added to a store that holds another item.
C17_Witness ==
    /\ last.op = "addItem" /\ last.res = "ok" /\ last.view.kind = "Solid"
    /\ Len(Live.geometryModel) = 2
    /\ Len(signals) = 2

\* The complete record of identity id in collections C.
CompleteRecord(C, id) ==
    /\ MapHas(C.geometryModel, id)
    /\ LET e == MapGet(C.geometryModel, id)
       IN /\ e.view.simpleName = id
          /\ e.view.levels = Len(precision_distance)
          /\ WalkComplete(C, e.view)

OwnSide(obj) == IF IsClosed(obj) THEN "FrontSide" ELSE "DoubleSide"

\* C19: the material of the faces of every solid in the store has the side
\* that solid's own closed/open flag asks for.
C19_SidednessOwn ==
    \A i \in DOMAIN Live.geometryModel :
        LET v == Live.geometryModel[i].view
        IN v.kind = "Solid" =>
              \A t \in Range(Traverse(v)) :
                  t.kind = "face" =>
                      materials[FaceMaterial(v, t)].side = OwnSide(v.model)

\* C20: no step of addTemporaryItem advances the counter, writes to the
\* Item Record map, the Topology Index or the Hidden Set, or dispatches; the
\* preview it ends with has identity -1, is in the Transient Workspace and in
\* no Item Record; and no Item Record has a negative identity.
C20_TemporaryBypasses ==
    /\ [][ ( \/ last'.op = "addTemporaryItem"
             \/ (last'.op = "object2mesh" /\ last'.id = -1) )
           => /\ UNCHANGED << counter, cols, this, recs, issued, returned >>
              /\ signals' = << >>
              /\ (last'.op = "addTemporaryItem" /\ last'.res = "ok") =>
                    /\ last'.view.simpleName = -1
                    /\ last'.view \in temporaryObjects'
                    /\ \A i \in DOMAIN Live'.geometryModel :
                          Live'.geometryModel[i].view # last'.view
         ]_vars
    /\ [](\A k \in DOMAIN cols : \A i \in DOMAIN cols[k].geometryModel :
             /\ cols[k].geometryModel[i].id >= 0
             /\ cols[k].geometryModel[i].view.simpleName >= 0)

\* C20 witness: a preview of a solid was made while the store holds an item
\* and the counter stands at one.
C20_Witness ==
    /\ last.op = "addTemporaryItem" /\ last.res = "ok"
    /\ last.view.kind = "Solid" /\ last.view \in temporaryObjects
    /\ Len(Live.geometryModel) = 1 /\ counter = 1

\* C21: the first cancel() of a preview takes it out of the Transient
\* Workspace and disposes it; a later cancel() of the same preview returns
\* normally and changes neither the workspace nor any other collection.
C21_CancelIdempotent ==
    [][ last'.op = "cancel" =>
          /\ last'.res \in {"ok", "ok again"}
          /\ last'.view \notin temporaryObjects'
          /\ last'.view \in disposed'
          /\ last'.res = "ok again" =>
                /\ last'.view \in disposed
                /\ last'.view \notin temporaryObjects
                /\ UNCHANGED << temporaryObjects, disposed, cols, this, recs,
                                counter, pending, handles, issued, returned,
                                mementos, materials >>
      ]_vars

\* C21 witness: a preview was cancelled a second time while another item is
\* in the store.
C21_Witness ==
    /\ last.op = "cancel" /\ last.res = "ok again"
    /\ last.view \in disposed /\ last.view \notin temporaryObjects
    /\ Len(Live.geometryModel) = 1

\* The caller asked for preview t to be cancelled and its build is not over.
CancelWanted(t) ==
    \E call \in pending :
        call.tmp = t /\ call.op = "addTemporaryItem" /\ call.then = "cancel"

\* Nothing of preview t is left: no build, no continuation, no mesh in the
\* Transient Workspace, and the mesh that was built is disposed.
PreviewGone(t) ==
    /\ \A call \in pending : call.tmp # t
    /\ \A mesh \in temporaryObjects : mesh.ref # << "temp", t >>
    /\ \A h \in handles : h.mesh.ref = << "temp", t >> => h.mesh \in disposed

C23_CommitReissues ==
    /\ [][ last'.op = "commit" =>
             /\ last'.view \notin temporaryObjects'
             /\ last'.id = counter /\ counter' = counter + 1 /\ last'.id >= 0
             /\ \A k \in DOMAIN cols : ~MapHas(cols[k].geometryModel, last'.id)
             /\ last'.res = "pending" =>
                   \E call \in pending' \ pending :
                       /\ call.op = "addItem" /\ call.obj = last'.obj
                       /\ call.id = last'.id /\ call.done = 0
                       /\ last'.view.ref = << "temp", call.tmp >>
         ]_vars
    /\ [][ \A call \in pending :
             ( /\ call.op = "addItem" /\ call.tmp > 0
               /\ call \notin pending'
               /\ last'.op = "addItem" /\ last'.res = "ok"
               /\ last'.id = call.id )
             => /\ MapHas(Live'.geometryModel, call.id)
                /\ MapGet(Live'.geometryModel, call.id).view = last'.view
                /\ ~MapHas(Live.geometryModel, call.id)
                /\ last'.view \in Range(FindIn(Live', last'.view.kind))
                /\ last'.view \in returned'
                /\ last'.view.simpleName = call.id /\ call.id >= 0
                /\ last'.view.model = call.obj
                /\ last'.view.levels = Len(precision_distance)
                /\ call.started = Sags(precision_distance)
                /\ \A mesh \in temporaryObjects' :
                      /\ mesh.ref # << "temp", call.tmp >>
                      /\ mesh # last'.view
         ]_vars

\* C23 witness: the only addItem ever begun has resolved, and it was begun
\* by the commit of a preview (the preview is neither in the workspace nor
\* disposed).
C23_Witness ==
    /\ last.op = "addItem" /\ last.res = "ok"
    /\ issued = << 0 >>
    /\ MapHas(Live.geometryModel, 0)
    /\ \E h \in handles :
          /\ h.object = last.obj
          /\ h.mesh \notin temporaryObjects
          /\ h.mesh \notin disposed

\* The views of the Item Records, in the order the records were inserted.
ItemViews(c) == [i \in DOMAIN c.geometryModel |-> c.geometryModel[i].view]

Pos(s, x) == CHOOSE i \in DOMAIN s : s[i] = x

NoRepeats(s) == \A i, j \in DOMAIN s : s[i] = s[j] => i = j

\* s lists its elements in the order t lists them.
InOrderOf(s, t) ==
    \A i, j \in DOMAIN s : i < j => Pos(t, s[i]) < Pos(t, s[j])

\* C24: find(kind) lists exactly the views of the Item Records of that kind
\* and visibleObjects exactly the views whose identity is not hidden, each
\* once and in the order of the Item Record map; a step changes the order of
\* the map only by dropping views or by putting the view of the addItem that
\* finalizes in that step last.
C24_FindInInsertionOrder ==
    /\ [](\A klass \in SupportedKinds :
            /\ Range(find(klass)) =
                 { v \in Range(ItemViews(Live)) : v.kind = klass }
            /\ NoRepeats(find(klass))
            /\ InOrderOf(find(klass), ItemViews(Live)))
    /\ [](/\ Range(visibleObjects) =
               { v \in Range(ItemViews(Live)) : v.simpleName \notin Live.hidden }
          /\ NoRepeats(visibleObjects)
          /\ InOrderOf(visibleObjects, ItemViews(Live)))
    /\ [][ LET old == ItemViews(Live)
               new == ItemViews(Live')
               kept == SelectSeq(new, LAMBDA v : v \in Range(old))
           IN /\ InOrderOf(kept, old)
              /\ \A v \in Range(new) \ Range(old) :
                    /\ last'.op = "addItem" /\ last'.view = v
                    /\ new = Append(kept, v)
         ]_vars

\* C24 witness: two solids were finalized against the order of their
\* identities and the first of the map is hidden: find lists the later
\* identity first and visibleObjects only the earlier one.
C24_Witness ==
    /\ Len(find("Solid")) = 2
    /\ find("Solid")[1].simpleName = 1 /\ find("Solid")[2].simpleName = 0
    /\ Live.hidden = {1}
    /\ visibleObjects = << find("Solid")[2] >>

\* The builds in progress: the calls suspended in meshes().
Builds == { call \in pending : call.op \in {"addItem", "addTemporaryItem"} }

\* C25: the kernel calls of a build are made one at a time in the order of
\* its schedule: while the build has added `done` levels it has made the
\* calls of the first done + 1 entries (of all of them once the last level
\* is in) and no other; each resumption adds one level to one build; and the
\* view is built only when every level is in, after exactly three kernel
\* calls for addItem and exactly one for addTemporaryItem.
C25_SequentialKernelCalls ==
    /\ [](\A call \in Builds :
            /\ call.done <= Len(Schedule(call))
            /\ Len(call.started) =
                 IF call.done < Len(Schedule(call)) THEN call.done + 1
                 ELSE call.done
            /\ call.started =
                 SubSeq(Sags(Schedule(call)), 1, Len(call.started)))
    /\ [][ last'.op = "object2mesh" =>
             \E call \in Builds :
                \E next \in pending' :
                   /\ pending' = (pending \ {call}) \cup {next}
                   /\ next.done = call.done + 1
                   /\ next.started =
                        IF next.done < Len(Schedule(call))
                        THEN Append(call.started,
                                    Sags(Schedule(call))[next.done + 1])
                        ELSE call.started
         ]_vars
    /\ [][ \A call \in Builds :
             ( /\ call \notin pending'
               /\ last'.op = call.op
               /\ last'.view # NoView )
             => /\ call.done = Len(Schedule(call))
                /\ last'.view.levels = call.done
                /\ Len(call.started) = (IF call.op = "addItem" THEN 3 ELSE 1)
                /\ last'.view.levels = (IF call.op = "addItem" THEN 3 ELSE 1)
         ]_vars

\* C25 witness: an addItem of a solid has made its second kernel call while
\* the single call of a preview has completed and its view was built.
C25_Witness ==
    /\ last.op = "addTemporaryItem" /\ last.res = "ok" /\ last.view.levels = 1
    /\ \E call \in Builds :
          /\ call.op = "addItem" /\ call.obj = "solid"
          /\ call.done = 1 /\ call.started = << 1000, 10 >>

\* C30: no Topology Record has an empty view set; the walk of an addItem
\* creates one record for each name it files, leaves the names already in
\* the index on their records and the handles of the records already made
\* as they are, and only adds views; and after the addItem of a solid built
\* with L levels resolves, the record of each of its sub-entities holds that
\* sub-entity's view from every one of the L levels, L views in all.
C30_OneRecordPerSubEntity ==
    /\ [](\A r \in DOMAIN recs : recs[r].view # {})
    /\ [][ last'.op = "addItem" =>
             /\ Len(recs') - Len(recs) =
                  Cardinality(DOMAIN Live'.topologyModel
                                 \ DOMAIN Live.topologyModel)
             /\ \A name \in DOMAIN Live.topologyModel :
                   /\ name \in DOMAIN Live'.topologyModel
                   /\ Live'.topologyModel[name] = Live.topologyModel[name]
             /\ \A r \in DOMAIN recs :
                   /\ recs'[r].model = recs[r].model
                   /\ recs[r].view \subseteq recs'[r].view
             /\ (last'.res = "ok" /\ last'.view.kind = "Solid") =>
                   \A name \in WalkNames(last'.view) :
                      LET data == recs'[Live'.topologyModel[name]]
                      IN /\ data.view = { t \in Range(Traverse(last'.view)) :
                                            t.simpleName = name }
                         /\ { t.level : t \in data.view } = 1 .. last'.view.levels
                         /\ Cardinality(data.view) = last'.view.levels
         ]_vars

\* C30 witness: the addItem of a solid resolved and the record of its face
\* 0 holds three views, one per level.
C30_Witness ==
    /\ last.op = "addItem" /\ last.res = "ok" /\ last.view.kind = "Solid"
    /\ last.view.levels = 3
    /\ LET name == TopologySimpleName(last.id, "face", 0)
       IN /\ name \in DOMAIN Live.topologyModel
          /\ Cardinality(recs[Live.topologyModel[name]].view) = 3

\* The kind flag of the encoding.
KindFlag(type) == IF type = "edge" THEN 0 ELSE 1

\* C26: for a kind, a parentId below 2^16 and an index below 2^15, extract
\* of the identity compactTopologyId returned gives back the parentId, the
\* kind flag (edge 0, face 1) and the index.
C26_RoundTrip ==
    ( /\ picker.extracted
      /\ picker.parentId < Pow2(16)
      /\ picker.index < Pow2(15) )
    => /\ picker.out.parentId = picker.parentId
       /\ picker.out.type = KindFlag(picker.type)
       /\ picker.out.index = picker.index

\* C27: compactTopologyId throws for every parentId of 2^16 or more and for
\* every index of 2^15 or more.
C27_RejectsOutOfRange ==
    ( /\ picker.type # "none"
      /\ (picker.parentId >= Pow2(16) \/ picker.index >= Pow2(15)) )
    => picker.thrown

\* C28: the identity compactTopologyId returned for accepted arguments is
\* returned for no other accepted arguments.
C28_NoCollision ==
    (picker.type # "none" /\ ~picker.thrown) =>
        \A type \in PickerTypes : \A parentId \in PickerParents :
          \A index \in PickerIndices :
            ( /\ << type, parentId, index >> #
                   << picker.type, picker.parentId, picker.index >>
              /\ ~compactTopologyId(type, parentId, index).thrown )
            => compactTopologyId(type, parentId, index).id # picker.id

\* C32: a commit() issues its addItem only while the preview is still in
\* the Transient Workspace, that is, as the first commit() and before any
\* cancel() of its handle; so one handle issues at most one addItem.
C32_OneRecordPerPreview ==
    [][ last'.op = "commit" => last'.view \in temporaryObjects ]_vars

\* C31: every step that changes the list of Item Records the store holds
\* dispatches sceneGraphChanged in that step, with the store already holding
\* the new list, so that a listener that reads the store on sceneGraphChanged
\* has the current list after the step.
C31_SceneGraphChangedOnChange ==
    [][ ItemViews(Live') # ItemViews(Live) =>
          \E n \in DOMAIN signals' :
              /\ signals'[n].name = "sceneGraphChanged"
              /\ signals'[n].store.geometryModel = Live'.geometryModel
      ]_vars

\* C33: while the Outliner is connected its render is bound exactly once to
\* sceneGraphChanged and to selectionChanged; while it is not connected
\* render is bound to neither, and no notification has rendered it while it
\* was disconnected.
C33_OutlinerListeners ==
    /\ outliner.connected =>
          outliner.sceneGraphChanged = 1 /\ outliner.selectionChanged = 1
    /\ ~outliner.connected =>
          outliner.sceneGraphChanged = 0 /\ outliner.selectionChanged = 0
    /\ outliner.renderedBy \in {"sceneGraphChanged", "selectionChanged"} =>
          outliner.renderedConnected

\* C34: while the viewport prompt element is connected its render is bound
\* to promptAdded and to promptRemoved; while it is not connected, also
\* after a reconnection, render is bound to neither.
C34_PromptListeners ==
    /\ prompt.connected =>
          prompt.promptAdded = 1 /\ prompt.promptRemoved = 1
    /\ ~prompt.connected =>
          prompt.promptAdded = 0 /\ prompt.promptRemoved = 0

\* C35: the compact identity of every sub-entity of an item the store holds
\* is at least minimumEntityId, so that intersect does not read it as
\* nothing under the cursor.
C35_NoZeroIdentity ==
    (picker.type # "none" /\ ~picker.thrown) =>
        /\ IdValue(picker.id) >= minimumEntityId
        /\ IntersectFinds(picker.id)

====
